---- MODULE Spec2Model ----
(***************************************************************************)
(* State-machine model of src/src/components/SchemaViewer.jsx: the React   *)
(* component's state (useState cells), its handlers, its effects and its   *)
(* render function, together with the JSON.parse / JSON.stringify          *)
(* conversions the handlers apply to texts.                                *)
(***************************************************************************)
EXTENDS Integers, Sequences, FiniteSets, TLC

(***************************************************************************)
(* Bounds of the model.                                                    *)
(***************************************************************************)
\* callbacks outstanding at a time: fetches in flight (loadExample,
\* handleUrlLoad), FileReader reads in flight, setTimeout callbacks due
MaxPending == 2

(***************************************************************************)
(* JSON values.  Every value is a record of one shape:                     *)
(*   t    : "null" | "bool" | "num" | "str" | "arr" | "obj"                *)
(*   s    : the scalar ("true"/"false", the double's name, the string)     *)
(*   keys : an object's own keys, in property order                        *)
(*   kids : an array's elements / an object's values (parallel to keys)    *)
(* A number is an IEEE double, named "0", "-0", "1", "Infinity".           *)
(***************************************************************************)
JNull == [t |-> "null", s |-> "", keys |-> <<>>, kids |-> <<>>]
JBool(b) == [t |-> "bool", s |-> b, keys |-> <<>>, kids |-> <<>>]
JNum(d) == [t |-> "num", s |-> d, keys |-> <<>>, kids |-> <<>>]
JStr(c) == [t |-> "str", s |-> c, keys |-> <<>>, kids |-> <<>>]
JArr(es) == [t |-> "arr", s |-> "", keys |-> <<>>, kids |-> es]
JObj(ks, vs) == [t |-> "obj", s |-> "", keys |-> ks, kids |-> vs]

\* JavaScript ToBoolean, as applied by `schema &&`, `!schema`, `if (schema)`
Truthy(v) ==
  CASE v.t = "null" -> FALSE
    [] v.t = "bool" -> v.s = "true"
    [] v.t = "num" -> v.s \notin {"0", "-0"}
    [] v.t = "str" -> v.s # ""
    [] OTHER -> TRUE

\* Object.is on two values held in state: a freshly parsed object or array
\* is a new identity, a primitive is compared by value (0 and -0 differ)
SameValue(old, new) == new.t \notin {"arr", "obj"} /\ old = new

(***************************************************************************)
(* Texts are sequences of tokens [k, s]:                                   *)
(*   k = "ws" white space, "p" punctuation, "lit" null/true/false,         *)
(*       "num" a number literal, "str" a quoted string, "bad" anything     *)
(*       that is no JSON token.                                            *)
(***************************************************************************)
Tok(k, s) == [k |-> k, s |-> s]
NL == Tok("ws", "\n")
IND == Tok("ws", "  ")
SP == Tok("ws", " ")

\* String.prototype.trim() yields the empty string
IsBlank(text) == \A i \in 1..Len(text) : text[i].k = "ws"

\* the double a number literal denotes (1e400 overflows to Infinity)
ToDouble(lex) ==
  CASE lex = "0" -> "0"
    [] lex = "-0" -> "-0"
    [] lex = "1" -> "1"
    [] lex = "1e400" -> "Infinity"

\* Number::toString of a finite double (-0 prints as 0)
NumberToString(d) == IF d = "-0" THEN "0" ELSE d

\* an array index key ("0", "1", ...): such keys come first in property order
IsIndexKey(k) == k \in {"0", "1", "2"}
IndexOf(k) == CASE k = "0" -> 0 [] k = "1" -> 1 [] k = "2" -> 2

RECURSIVE Position(_, _, _)
\* the position of key k in keys from i on, 0 when absent
Position(keys, k, i) ==
  IF i > Len(keys) THEN 0
  ELSE IF keys[i] = k THEN i ELSE Position(keys, k, i + 1)

RECURSIVE InsertAt(_, _, _)
\* the place a new key takes among keys: index keys ascending, then the
\* string keys in insertion order
InsertAt(keys, k, i) ==
  IF i > Len(keys) THEN i
  ELSE IF IsIndexKey(k) /\ (~IsIndexKey(keys[i]) \/ IndexOf(keys[i]) > IndexOf(k))
       THEN i
       ELSE InsertAt(keys, k, i + 1)

Splice(seq, i, x) == SubSeq(seq, 1, i - 1) \o <<x>> \o SubSeq(seq, i, Len(seq))

\* CreateDataProperty(obj, k, v) as JSON.parse applies it: a repeated key
\* keeps its place and takes the later value
DefineProperty(obj, k, v) ==
  LET at == Position(obj.keys, k, 1) IN
  IF at # 0 THEN [obj EXCEPT !.kids[at] = v]
  ELSE LET p == InsertAt(obj.keys, k, 1) IN
       [obj EXCEPT !.keys = Splice(obj.keys, p, k), !.kids = Splice(obj.kids, p, v)]

(***************************************************************************)
(* JSON.stringify(value, null, 2)                                          *)
(***************************************************************************)
RECURSIVE Indent(_)
Indent(n) == IF n = 0 THEN <<>> ELSE <<IND>> \o Indent(n - 1)

RECURSIVE Serialize(_, _), SerializeItems(_, _, _)
Serialize(v, depth) ==
  CASE v.t = "null" -> <<Tok("lit", "null")>>
    [] v.t = "bool" -> <<Tok("lit", v.s)>>
    [] v.t = "num" -> IF v.s = "Infinity" THEN <<Tok("lit", "null")>>
                                          ELSE <<Tok("num", NumberToString(v.s))>>
    [] v.t = "str" -> <<Tok("str", v.s)>>
    [] v.t = "arr" -> IF v.kids = <<>> THEN <<Tok("p", "["), Tok("p", "]")>>
                      ELSE <<Tok("p", "[")>> \o SerializeItems(v, 1, depth + 1)
                           \o <<NL>> \o Indent(depth) \o <<Tok("p", "]")>>
    [] v.t = "obj" -> IF v.kids = <<>> THEN <<Tok("p", "{"), Tok("p", "}")>>
                      ELSE <<Tok("p", "{")>> \o SerializeItems(v, 1, depth + 1)
                           \o <<NL>> \o Indent(depth) \o <<Tok("p", "}")>>
SerializeItems(v, i, depth) ==
  IF i > Len(v.kids) THEN <<>>
  ELSE (IF i > 1 THEN <<Tok("p", ",")>> ELSE <<>>)
       \o <<NL>> \o Indent(depth)
       \o (IF v.t = "obj" THEN <<Tok("str", v.keys[i]), Tok("p", ":"), SP>> ELSE <<>>)
       \o Serialize(v.kids[i], depth)
       \o SerializeItems(v, i + 1, depth)

JSONstringify(v) == Serialize(v, 0)

(***************************************************************************)
(* JSON.parse(text): a result [ok, v, i]; ok = FALSE is a SyntaxError.     *)
(***************************************************************************)
Fail == [ok |-> FALSE, v |-> JNull, i |-> 0]
Done(v, i) == [ok |-> TRUE, v |-> v, i |-> i]
StripWs(text) == SelectSeq(text, LAMBDA tk : tk.k # "ws")
IsP(ts, i, c) == i <= Len(ts) /\ ts[i] = Tok("p", c)

RECURSIVE ParseValue(_, _), ParseElements(_, _, _), ParseMembers(_, _, _)
ParseValue(ts, i) ==
  IF i > Len(ts) THEN Fail
  ELSE CASE ts[i].k = "lit" ->
              Done(IF ts[i].s = "null" THEN JNull ELSE JBool(ts[i].s), i + 1)
         [] ts[i].k = "num" -> Done(JNum(ToDouble(ts[i].s)), i + 1)
         [] ts[i].k = "str" -> Done(JStr(ts[i].s), i + 1)
         [] IsP(ts, i, "[") ->
              IF IsP(ts, i + 1, "]") THEN Done(JArr(<<>>), i + 2)
              ELSE ParseElements(ts, i + 1, JArr(<<>>))
         [] IsP(ts, i, "{") ->
              IF IsP(ts, i + 1, "}") THEN Done(JObj(<<>>, <<>>), i + 2)
              ELSE ParseMembers(ts, i + 1, JObj(<<>>, <<>>))
         [] OTHER -> Fail
ParseElements(ts, i, arr) ==
  LET r == ParseValue(ts, i) IN
  IF ~r.ok THEN Fail
  ELSE LET next == [arr EXCEPT !.kids = Append(@, r.v)] IN
       IF IsP(ts, r.i, ",") THEN ParseElements(ts, r.i + 1, next)
       ELSE IF IsP(ts, r.i, "]") THEN Done(next, r.i + 1)
       ELSE Fail
ParseMembers(ts, i, obj) ==
  IF ~(i <= Len(ts) /\ ts[i].k = "str" /\ IsP(ts, i + 1, ":")) THEN Fail
  ELSE LET r == ParseValue(ts, i + 2) IN
       IF ~r.ok THEN Fail
       ELSE LET next == DefineProperty(obj, ts[i].s, r.v) IN
            IF IsP(ts, r.i, ",") THEN ParseMembers(ts, r.i + 1, next)
            ELSE IF IsP(ts, r.i, "}") THEN Done(next, r.i + 1)
            ELSE Fail

JSONparse(text) ==
  LET ts == StripWs(text)
      r == ParseValue(ts, 1)
  IN IF r.ok /\ r.i = Len(ts) + 1 THEN [ok |-> TRUE, v |-> r.v]
                                  ELSE [ok |-> FALSE, v |-> JNull]

(***************************************************************************)
(* Texts the environment can hand to the component: file contents, pasted  *)
(* editor values and fetch response bodies.                                *)
(***************************************************************************)
TNotJson == <<Tok("bad", "not"), SP, Tok("bad", "json")>>
TBlank == <<SP, NL>>
TNull == <<Tok("lit", "null")>>
TTrue == <<Tok("lit", "true")>>
TZero == <<Tok("num", "0")>>
TNegZero == <<Tok("num", "-0")>>
THuge == <<Tok("num", "1e400")>>
\* { "b": 1, "1": [1, true], "b": "" }
TKeys == <<Tok("p", "{"), SP, Tok("str", "b"), Tok("p", ":"), SP, Tok("num", "1"),
           Tok("p", ","), SP, Tok("str", "1"), Tok("p", ":"), SP,
           Tok("p", "["), Tok("num", "1"), Tok("p", ","), SP, Tok("lit", "true"), Tok("p", "]"),
           Tok("p", ","), SP, Tok("str", "b"), Tok("p", ":"), SP, Tok("str", ""),
           SP, Tok("p", "}")>>

\* bodies a fetch can resolve with
Bodies == {TNotJson, TNull, TKeys}
\* event.target.files[0] is undefined
NoFile == <<Tok("undefined", "")>>
\* contents of an uploaded file
FileTexts == {TNotJson, THuge, TNegZero}
\* values the editor's onChange can deliver
EditorTexts == {TNotJson, TBlank, TZero, TTrue}

Texts == Bodies \cup FileTexts \cup EditorTexts
\* JSON.parse of each text of the environment
Parsed == [text \in Texts |-> JSONparse(text)]

(***************************************************************************)
(* parseSchema (../utils/schemaParser): throws unless the document is      *)
(* object-, array- or boolean-shaped, otherwise yields the root node.      *)
(***************************************************************************)
parseSchema(document) ==
  [threw |-> document.t \notin {"obj", "arr", "bool"},
   node |-> [kind |-> document.t, of |-> document]]

\* useState(null) of parsedSchema
NotParsed == [kind |-> "none", of |-> JNull]

\* the null of useState(null) for error
None == "(null)"

Views == {"explorer", "visualize", "source"}

\* sampleSchemas[*].path
SamplePaths == {"/src/schemas/opencollection.schema.json", "/src/schemas/sample.schema.json"}

(***************************************************************************)
(* State.                                                                  *)
(***************************************************************************)
VARIABLES
  schema,             \* useState: the Document
  parsedSchema,       \* useState: parseSchema's result for a Document
  view,               \* useState: the view mode
  error,              \* useState: the error banner's text, or None
  copied,             \* useState: the Copy button shows the check mark
  jsonInput,          \* useState: the editor's text
  showSampleDropdown, \* useState: the Load Example menu is open
  mounted,            \* the mount effects have run
  effectPending,      \* the last render changed schema: the parse effect is due
  loads,              \* the fetches in flight, in order of initiation
  reads,              \* FileReader reads in flight: text -> how many
  timers,             \* setTimeout(() => setCopied(false)) callbacks due
  cleared             \* history: the last load succeeded while an error was shown

vars == <<schema, parsedSchema, view, error, copied, jsonInput, showSampleDropdown,
          mounted, effectPending, loads, reads, timers, cleared>>

ui == <<view, copied, showSampleDropdown, timers>>
doc == <<schema, jsonInput, error, effectPending, cleared>>

Init ==
  /\ schema = JNull
  /\ parsedSchema = NotParsed
  /\ view = "explorer"
  /\ error = None
  /\ copied = FALSE
  /\ jsonInput = <<>>
  /\ showSampleDropdown = FALSE
  /\ mounted = FALSE
  /\ effectPending = FALSE
  /\ loads = <<>>
  /\ reads = [t \in FileTexts |-> 0]
  /\ timers = 0
  /\ cleared = FALSE

\* an event handler or a promise continuation runs: the component is
\* mounted and the effects of the last render have been flushed
Idle == mounted /\ ~effectPending

RECURSIVE Sum(_, _)
Sum(f, S) == IF S = {} THEN 0 ELSE LET x == CHOOSE y \in S : TRUE IN f[x] + Sum(f, S \ {x})
\* the callbacks outstanding: fetches, file reads, timers
Pending == Len(loads) + Sum(reads, FileTexts) + timers

(***************************************************************************)
(* What the render function shows for the current state.                   *)
(***************************************************************************)
Render ==
  [toolbar |-> Truthy(schema),
   banner |-> error,
   check |-> Truthy(schema) /\ copied,
   body |-> IF ~Truthy(schema) THEN "paste" ELSE view,
   editable |-> ~Truthy(schema),
   text |-> IF ~Truthy(schema) THEN jsonInput
            ELSE IF view = "source" THEN JSONstringify(schema) ELSE <<>>]

(***************************************************************************)
(* Fetches in flight.  A fetch is [kind, stale, behind]:                   *)
(*   kind   : "url" (handleUrlLoad) or "sample" (loadExample)              *)
(*   stale  : history: a fetch initiated after this one has settled        *)
(*   behind : history: the Document on display was delivered by a fetch    *)
(*            initiated after this one                                     *)
(***************************************************************************)
NewLoad(kind) == [kind |-> kind, stale |-> FALSE, behind |-> FALSE]

Without(seq, i) == SubSeq(seq, 1, i - 1) \o SubSeq(seq, i + 1, Len(seq))

\* fetch i has settled; delivered: its response became the Document
AfterSettle(i, delivered) ==
  Without([j \in DOMAIN loads |->
             IF j < i THEN [loads[j] EXCEPT !.stale = TRUE, !.behind = @ \/ delivered]
             ELSE [loads[j] EXCEPT !.behind = @ /\ ~delivered]], i)

\* a file or the editor delivered the Document
AfterLocal == [j \in DOMAIN loads |-> [loads[j] EXCEPT !.behind = FALSE]]

(***************************************************************************)
(* The two outcomes of a loader's try / catch.                             *)
(***************************************************************************)
\* Replace with the setError(null) call left out
ReplaceKeepsError(data) ==
  /\ schema' = data
  /\ jsonInput' = JSONstringify(data)
  /\ effectPending' = ~SameValue(schema, data)
  /\ cleared' = (error # None)
  /\ UNCHANGED error

\* Reject with the Document dropped in the catch block
RejectResets(message) ==
  /\ error' = message
  /\ cleared' = FALSE
  /\ schema' = JNull
  /\ effectPending' = ~SameValue(schema, JNull)
  /\ UNCHANGED jsonInput

\* setSchema(data); setJsonInput(JSON.stringify(data, null, 2)); setError(null)
Replace(data) ==
  /\ schema' = data
  /\ jsonInput' = JSONstringify(data)
  /\ error' = None
  /\ effectPending' = ~SameValue(schema, data)
  /\ cleared' = (error # None)

\* setError(message)
Reject(message) ==
  /\ error' = message
  /\ cleared' = FALSE
  /\ UNCHANGED <<schema, jsonInput, effectPending>>

(***************************************************************************)
(* Effects.                                                                *)
(***************************************************************************)
\* first render's effects: the parse effect finds schema null, the
\* mousedown listener is registered, the default sample is requested
Mount ==
  /\ ~mounted
  /\ mounted' = TRUE
  /\ loads' = Append(loads, NewLoad("sample"))
  /\ UNCHANGED <<parsedSchema, reads>>
  /\ UNCHANGED ui /\ UNCHANGED doc

\* ParseEffect with the Document taken back when parseSchema throws
ParseEffectReverts ==
  /\ effectPending
  /\ effectPending' = FALSE
  /\ IF Truthy(schema)
     THEN IF parseSchema(schema).threw
          THEN error' = "Failed to parse schema" /\ schema' = JNull /\ UNCHANGED parsedSchema
          ELSE parsedSchema' = parseSchema(schema).node /\ UNCHANGED <<error, schema>>
     ELSE UNCHANGED <<parsedSchema, error, schema>>
  /\ UNCHANGED <<jsonInput, cleared, mounted, loads, reads>>
  /\ UNCHANGED ui

\* useEffect(..., [schema])
ParseEffect ==
  /\ effectPending
  /\ effectPending' = FALSE
  /\ IF Truthy(schema)
     THEN IF parseSchema(schema).threw
          THEN error' = "Failed to parse schema" /\ UNCHANGED parsedSchema
          ELSE parsedSchema' = parseSchema(schema).node /\ UNCHANGED error
     ELSE UNCHANGED <<parsedSchema, error>>
  /\ UNCHANGED <<schema, jsonInput, cleared, mounted, loads, reads>>
  /\ UNCHANGED ui

(***************************************************************************)
(* Loaders.                                                                *)
(***************************************************************************)
\* handleFileUpload: event.target.files[0] holds the text `file`, or the
\* dialog was closed without a file
HandleFileUpload(file) ==
  /\ Idle
  /\ IF file # NoFile
     THEN Pending < MaxPending /\ reads' = [reads EXCEPT ![file] = @ + 1]
     ELSE UNCHANGED reads
  /\ UNCHANGED <<parsedSchema, mounted, loads>>
  /\ UNCHANGED ui /\ UNCHANGED doc

\* reader.onload
ReaderOnload(content) ==
  /\ Idle
  /\ reads[content] > 0
  /\ reads' = [reads EXCEPT ![content] = @ - 1]
  /\ IF Parsed[content].ok
     THEN Replace(Parsed[content].v) /\ loads' = AfterLocal
     ELSE Reject("Invalid JSON file") /\ UNCHANGED loads
  /\ UNCHANGED <<parsedSchema, mounted>>
  /\ UNCHANGED ui

\* handleJsonInput, the onChange of the editor of the empty state
HandleJsonInput(value) ==
  /\ Idle
  /\ Render.editable
  /\ jsonInput' = value
  /\ IF IsBlank(value)
     THEN UNCHANGED <<schema, error, effectPending, cleared, loads>>
     ELSE IF Parsed[value].ok
          THEN /\ schema' = Parsed[value].v
               /\ error' = None
               /\ effectPending' = ~SameValue(schema, Parsed[value].v)
               /\ cleared' = (error # None)
               /\ loads' = AfterLocal
          ELSE /\ error' = "Invalid JSON format"
               /\ cleared' = FALSE
               /\ UNCHANGED <<schema, effectPending, loads>>
  /\ UNCHANGED <<parsedSchema, mounted, reads>>
  /\ UNCHANGED ui

\* handleUrlLoad up to its first await; url is what prompt() returned
HandleUrlLoad(url) ==
  /\ Idle
  /\ IF url # ""
     THEN Pending < MaxPending /\ loads' = Append(loads, NewLoad("url"))
     ELSE UNCHANGED loads
  /\ UNCHANGED <<parsedSchema, mounted, reads>>
  /\ UNCHANGED ui /\ UNCHANGED doc

\* loadExample up to its first await, called from a menu entry
LoadExample(schemaPath) ==
  /\ Idle
  /\ showSampleDropdown
  /\ Pending < MaxPending
  /\ loads' = Append(loads, NewLoad("sample"))
  /\ UNCHANGED <<parsedSchema, mounted, reads>>
  /\ UNCHANGED ui /\ UNCHANGED doc

\* handleUrlLoad after its awaits: the fetch was rejected (reached = FALSE)
\* or resolved with `body`, which response.json() parses
UrlSettled(i, reached, body) ==
  /\ Idle
  /\ i \in DOMAIN loads /\ loads[i].kind = "url"
  /\ IF reached /\ Parsed[body].ok
     THEN Replace(Parsed[body].v)
     ELSE Reject("Failed to load schema from URL")
  /\ loads' = AfterSettle(i, reached /\ Parsed[body].ok)
  /\ UNCHANGED <<parsedSchema, mounted, reads>>
  /\ UNCHANGED ui

\* loadExample after its awaits
ExampleSettled(i, reached, body) ==
  /\ Idle
  /\ i \in DOMAIN loads /\ loads[i].kind = "sample"
  /\ IF reached /\ Parsed[body].ok
     THEN Replace(Parsed[body].v) /\ showSampleDropdown' = FALSE
     ELSE Reject("Failed to load example schema") /\ UNCHANGED showSampleDropdown
  /\ loads' = AfterSettle(i, reached /\ Parsed[body].ok)
  /\ UNCHANGED <<parsedSchema, mounted, reads, view, copied, timers>>

(***************************************************************************)
(* Toolbar.                                                                *)
(***************************************************************************)
\* the Load Example button
ToggleDropdown ==
  /\ Idle
  /\ showSampleDropdown' = ~showSampleDropdown
  /\ UNCHANGED <<parsedSchema, mounted, view, copied, timers, loads, reads>>
  /\ UNCHANGED doc

\* handleClickOutside: a mousedown outside the menu
ClickOutside ==
  /\ Idle
  /\ showSampleDropdown' = FALSE
  /\ UNCHANGED <<parsedSchema, mounted, view, copied, timers, loads, reads>>
  /\ UNCHANGED doc

\* the Explorer / Visualize / Source buttons
SetView(v) ==
  /\ Idle
  /\ Render.toolbar
  /\ view' = v
  /\ UNCHANGED <<parsedSchema, mounted, copied, showSampleDropdown, timers, loads, reads>>
  /\ UNCHANGED doc

\* handleExport: builds the blob and clicks a link; no state is written,
\* whether or not the download starts
HandleExport(started) ==
  /\ Idle
  /\ Render.toolbar
  /\ UNCHANGED vars

\* handleCopy.  clipboard is "written", "rejected" (the promise writeText
\* returns is rejected; nothing awaits it) or "absent" (navigator.clipboard
\* is undefined and the call throws before setCopied)
HandleCopy(clipboard) ==
  /\ Idle
  /\ Render.toolbar
  /\ Pending < MaxPending
  /\ IF Truthy(schema) /\ clipboard # "absent"
     THEN copied' = TRUE /\ timers' = timers + 1
     ELSE UNCHANGED <<copied, timers>>
  /\ UNCHANGED <<parsedSchema, mounted, view, showSampleDropdown, loads, reads>>
  /\ UNCHANGED doc

\* the callback of setTimeout(..., 2000)
CopiedTimeout ==
  /\ Idle
  /\ timers > 0
  /\ timers' = timers - 1
  /\ copied' = FALSE
  /\ UNCHANGED <<parsedSchema, mounted, view, showSampleDropdown, loads, reads>>
  /\ UNCHANGED doc

Next ==
  \/ Mount
  \/ ParseEffect
  \/ \E file \in FileTexts \cup {NoFile} : HandleFileUpload(file)
  \/ \E content \in FileTexts : ReaderOnload(content)
  \/ \E value \in EditorTexts : HandleJsonInput(value)
  \/ \E url \in {"", "https://example.com/schema.json"} : HandleUrlLoad(url)
  \/ \E schemaPath \in SamplePaths : LoadExample(schemaPath)
  \/ \E i \in 1..MaxPending, reached \in BOOLEAN, body \in Bodies : UrlSettled(i, reached, body)
  \/ \E i \in 1..MaxPending, reached \in BOOLEAN, body \in Bodies : ExampleSettled(i, reached, body)
  \/ ToggleDropdown
  \/ ClickOutside
  \/ \E v \in Views : SetView(v)
  \/ \E started \in BOOLEAN : HandleExport(started)
  \/ \E clipboard \in {"written", "rejected", "absent"} : HandleCopy(clipboard)
  \/ CopiedTimeout

Spec == Init /\ [][Next]_vars

(***************************************************************************)
(* Properties.                                                             *)
(***************************************************************************)
Slots == 1..MaxPending
ParseError == "Failed to parse schema"

\* a fetch settles with a response that becomes the Document
FetchDelivers(i, body) ==
  Parsed[body].ok /\ (UrlSettled(i, TRUE, body) \/ ExampleSettled(i, TRUE, body))

\* a fetch settles, one way or the other
FetchSettles(i, reached, body) ==
  UrlSettled(i, reached, body) \/ ExampleSettled(i, reached, body)

\* a load from one of the four sources fails
FailedLoadStep ==
  \/ \E content \in FileTexts : ~Parsed[content].ok /\ ReaderOnload(content)
  \/ \E value \in EditorTexts :
       ~IsBlank(value) /\ ~Parsed[value].ok /\ HandleJsonInput(value)
  \/ \E i \in Slots, reached \in BOOLEAN, body \in Bodies :
       ~(reached /\ Parsed[body].ok) /\ FetchSettles(i, reached, body)

\* C1: of two fetches that both succeed, the Document of the later-initiated
\* one is displayed after both have settled: when the response of a fetch
\* initiated before the one whose Document is on display arrives, that
\* Document stays.
StaleResponseDiscarded ==
  [][\A i \in Slots, body \in Bodies :
       (FetchDelivers(i, body) /\ loads[i].behind /\ Render.toolbar)
         => schema' = schema]_vars

\* C2: a failed load from any source leaves the Document as it was and sets
\* a non-null error.
FailedLoadKeepsDocument ==
  [][FailedLoadStep => (schema' = schema /\ error' # None)]_vars

\* a failed fetch has acted while a normalized Document was on display
FailedLoadSeen ==
  /\ error \in {"Failed to load schema from URL", "Failed to load example schema"}
  /\ Truthy(schema)
  /\ parsedSchema = parseSchema(schema).node

\* C3: the step of a successful load that makes the value the Document also
\* clears the error.
SuccessfulLoadClearsError ==
  [][/\ \A content \in FileTexts : (Parsed[content].ok /\ ReaderOnload(content))
          => (schema' = Parsed[content].v /\ error' = None)
     /\ \A value \in EditorTexts :
          (~IsBlank(value) /\ Parsed[value].ok /\ HandleJsonInput(value))
          => (schema' = Parsed[value].v /\ error' = None)
     /\ \A i \in Slots, body \in Bodies : FetchDelivers(i, body)
          => (schema' = Parsed[body].v /\ error' = None)]_vars

\* a successful load has just replaced the Document while an error was shown
ClearedErrorSeen == cleared /\ error = None /\ Truthy(schema)

\* C4: when parseSchema throws on the Document, the Document stays, the
\* error 'Failed to parse schema' is shown, the view buttons stay available,
\* and selecting "source" shows the serialized raw Document.
ParseFailureFallback ==
  [][/\ (ParseEffect /\ Truthy(schema) /\ parseSchema(schema).threw)
        => (schema' = schema /\ Render'.banner = ParseError /\ Render'.toolbar /\ Idle')
     /\ (SetView("source") /\ parseSchema(schema).threw)
        => (schema' = schema /\ Render'.body = "source"
                             /\ Render'.text = JSONstringify(schema))]_vars

\* the source view is selected for a Document parseSchema threw on
SourceViewAfterParseFailure ==
  /\ view = "source"
  /\ error = ParseError
  /\ Truthy(schema) /\ parseSchema(schema).threw
  /\ Render.text = JSONstringify(schema)

\* C5: parsing the two-space-indented serialization of the Document yields
\* a value equal to the Document, key order included.
RoundTrip == JSONparse(JSONstringify(schema)) = [ok |-> TRUE, v |-> schema]

\* C6: a failed copy is reported (an error is set, the check mark is not
\* shown) and leaves the Document unchanged.
CopyFailureReported ==
  [][\A clipboard \in {"rejected", "absent"} :
       HandleCopy(clipboard) => (error' # None /\ ~Render'.check /\ schema' = schema)]_vars

\* C7: once the parse effect has run, a held parsedSchema is parseSchema's
\* result for the current Document, or the parse error is displayed.
NormalizationFollowsDocument ==
  (Idle /\ parsedSchema # NotParsed)
    => \/ (~parseSchema(schema).threw /\ parsedSchema = parseSchema(schema).node)
       \/ error = ParseError

\* C8: a fetch that settles after a later-initiated fetch has settled does
\* not change the error.
SupersededLoadKeepsError ==
  [][\A i \in Slots, reached \in BOOLEAN, body \in Bodies :
       (FetchSettles(i, reached, body) /\ loads[i].stale) => error' = error]_vars

\* C9: once the toolbar is shown it stays shown, and every successful load
\* leaves a Document on display.
DocumentStaysDisplayed ==
  [][/\ Render.toolbar => Render'.toolbar
     /\ \A content \in FileTexts : (Parsed[content].ok /\ ReaderOnload(content))
          => Render'.toolbar
     /\ \A i \in Slots, body \in Bodies : FetchDelivers(i, body) => Render'.toolbar]_vars

\* C10: with no error displayed and a non-blank editor text, the editor
\* text parses to the Document.
EditorInSync ==
  (error = None /\ ~IsBlank(jsonInput))
    => JSONparse(jsonInput) = [ok |-> TRUE, v |-> schema]

====
